---- MODULE Spec2Model ----
(***************************************************************************)
(* TimeInterpolator (frameworks/av/media/libstagefright): an audio clock   *)
(* interpolator with elastic time.  The object's fields are held in the    *)
(* record `ti'; every mutex-protected region of a public method is one     *)
(* atomic step.  One writer thread issues post_buffer and the life-cycle   *)
(* calls, a reader thread issues get_stream_usecs.                         *)
(*                                                                         *)
(* In the thread-level specification (SpecThreads) acquiring and releasing *)
(* m_mutex are steps of their own, post_buffer's writes to m_read and      *)
(* m_queued are separate steps, and the inline accessors read_pointer()    *)
(* and usecs_queued() load the fields without the mutex.                   *)
(*                                                                         *)
(* m_Tf (a double) is held as an exact fraction [n, d]; the IEEE rounding  *)
(* of the double operations (relative error below 2^-52) is not modelled,  *)
(* the conversions double -> int64 truncate toward zero as in C++.         *)
(* `now' is the last value read from the monotonic clock; every call of    *)
(* get_system_usecs() returns now + d for some d >= 0.                     *)
(***************************************************************************)
EXTENDS Integers, Sequences, FiniteSets, TLC

VARIABLES ti, now, pc, seek_to, wcall, wsteps, calls, hist, mutex, rd, obs

vars == <<ti, now, pc, seek_to, wcall, wsteps, calls, hist, mutex, rd, obs>>

\* The variables of the thread-level specification: the holder of m_mutex, the
\* readers' positions, and what the unlocked accessors returned.
threads == <<mutex, rd, obs>>

----------------------------------------------------------------------------
(* Bounds of the exploration and the inputs the calls are tried with. *)

MaxCalls == 3
MaxPlayCalls == 5

Deltas == {0, 20000, 100000}
Frames == {20000, 100000}
Latencies == {0, 100000, 20000}
PlayLatencies == {20000}
SeekTargets == {-100000, 300000}
ReadPointers == {1000000}

----------------------------------------------------------------------------
(* Program constants and enumerations. *)

DEFAULT_AUDIO_LATENCY == 20000 * 4 * 2

STOPPED == "STOPPED"
ROLLING == "ROLLING"
PAUSED == "PAUSED"

STOP == "STOP"
SEEK == "SEEK"
PAUSE == "PAUSE"
POST_BUFFER == "POST_BUFFER"
ERR_UNDERRUN == "ERR_UNDERRUN"
ERR_OVERRUN == "ERR_OVERRUN"

----------------------------------------------------------------------------
(* Arithmetic: C++ integer division, and the double m_Tf as a fraction. *)

Abs(x) == IF x < 0 THEN -x ELSE x

RECURSIVE GCD(_, _)
GCD(a, b) == IF b = 0 THEN a ELSE GCD(b, a % b)

\* C++ a / b for b > 0: the quotient truncated toward zero.
CDiv(a, b) == IF a >= 0 THEN a \div b ELSE -((-a) \div b)

\* The double n / d (d > 0), in lowest terms.
Frac(n, d) ==
    LET g == GCD(Abs(n), d)
    IN  IF n = 0 THEN [n |-> 0, d |-> 1] ELSE [n |-> n \div g, d |-> d \div g]

TfZero == Frac(0, 1)
TfUnity == Frac(1, 1)
TfMax == Frac(2, 1)
TfMin == Frac(1, 2)

\* floor(tf * dt) and ceil(tf * dt) for tf >= 0, dt >= 0.
MulFloor(tf, dt) ==
    IF dt = 0 \/ tf.n = 0 THEN 0
    ELSE LET g == GCD(dt, tf.d)
         IN  (tf.n * (dt \div g)) \div (tf.d \div g)

MulCeil(tf, dt) ==
    IF dt = 0 \/ tf.n = 0 THEN 0
    ELSE LET g == GCD(dt, tf.d)
         IN  -((-(tf.n * (dt \div g))) \div (tf.d \div g))

\* int64_t(double(pos) + tf * dt): the sum is truncated toward zero.
TruncSum(pos, tf, dt) ==
    IF pos + MulFloor(tf, dt) >= 0
    THEN pos + MulFloor(tf, dt)
    ELSE pos + MulCeil(tf, dt)

----------------------------------------------------------------------------
(* The methods, as functions of the object s and the clock reading t. *)

read_pointer(s) == s.m_read + s.m_queued

usecs_queued(s) == s.m_queued

\* TRUE when the error-checking block of set_state logs an ALOGE.
set_state_error(cur, s, i) ==
    CASE cur = STOPPED ->
            (s = ROLLING /\ i # POST_BUFFER) \/ s # ROLLING
      [] cur = ROLLING ->
            \/ s = PAUSED /\ i # PAUSE
            \/ s = STOPPED /\ i # STOP /\ i # ERR_UNDERRUN
            \/ s # PAUSED /\ s # STOPPED
      [] cur = PAUSED ->
            \/ s = ROLLING /\ i # POST_BUFFER
            \/ s = STOPPED /\ i # STOP /\ i # SEEK
            \/ s # ROLLING /\ s # STOPPED

set_state(s, st, i) ==
    IF s.m_state = st THEN s ELSE [s EXCEPT !.m_state = st]

\* set_latency() that stores lat_usecs whatever its sign.
set_latency_unchecked(s, lat_usecs) == [s EXCEPT !.m_latency = lat_usecs]

set_latency(s, lat_usecs) ==
    IF lat_usecs > 0
    THEN [s EXCEPT !.m_latency = lat_usecs]
    ELSE [s EXCEPT !.m_latency = DEFAULT_AUDIO_LATENCY]

\* seek() that leaves m_last alone.
seek_keep_last(s, media_time, t) ==
    IF s.m_state = STOPPED \/ s.m_state = PAUSED
    THEN [s EXCEPT !.m_pos0 = media_time,
                   !.m_read = media_time,
                   !.m_queued = 0,
                   !.m_t0 = t,
                   !.m_Tf = TfZero,
                   !.m_now_last = 0]
    ELSE [s EXCEPT !.m_read = media_time,
                   !.m_pos0 = media_time - s.m_latency,
                   !.m_queued = 0,
                   !.m_t0 = t,
                   !.m_Tf = TfUnity,
                   !.m_now_last = 0]

\* seek() that copies m_pos0 to m_last before it has moved m_pos0.
seek_last_from_old_pos0(s, media_time, t) ==
    IF s.m_state = STOPPED \/ s.m_state = PAUSED
    THEN [s EXCEPT !.m_pos0 = media_time,
                   !.m_read = media_time,
                   !.m_queued = 0,
                   !.m_t0 = t,
                   !.m_Tf = TfZero,
                   !.m_last = s.m_pos0,
                   !.m_now_last = 0]
    ELSE [s EXCEPT !.m_read = media_time,
                   !.m_pos0 = media_time - s.m_latency,
                   !.m_queued = 0,
                   !.m_t0 = t,
                   !.m_Tf = TfUnity,
                   !.m_last = s.m_pos0,
                   !.m_now_last = 0]

seek(s, media_time, t) ==
    IF s.m_state = STOPPED \/ s.m_state = PAUSED
    THEN [s EXCEPT !.m_pos0 = media_time,
                   !.m_read = media_time,
                   !.m_queued = 0,
                   !.m_t0 = t,
                   !.m_Tf = TfZero,
                   !.m_last = media_time,
                   !.m_now_last = 0]
    ELSE [s EXCEPT !.m_read = media_time,
                   !.m_pos0 = media_time - s.m_latency,
                   !.m_queued = 0,
                   !.m_t0 = t,
                   !.m_Tf = TfUnity,
                   !.m_last = media_time - s.m_latency,
                   !.m_now_last = 0]

\* pause() without the test m_state == ROLLING.
pause_any_state(s, flushing_fifo, t) ==
    IF flushing_fifo
    THEN [obj |-> set_state(s, STOPPED, STOP), seek_to |-> s.m_read + s.m_queued]
    ELSE [obj |-> [set_state(s, PAUSED, PAUSE) EXCEPT
                       !.m_read = s.m_read + s.m_queued,
                       !.m_pos0 = s.m_last,
                       !.m_t0 = t,
                       !.m_queued = 0],
          seek_to |-> -1]

\* pause() without m_pos0 = m_last.
pause_keep_pos0(s, flushing_fifo, t) ==
    IF flushing_fifo
    THEN [obj |-> set_state(s, STOPPED, STOP), seek_to |-> s.m_read + s.m_queued]
    ELSE IF s.m_state = ROLLING
    THEN [obj |-> [set_state(s, PAUSED, PAUSE) EXCEPT
                       !.m_read = s.m_read + s.m_queued,
                       !.m_t0 = t,
                       !.m_queued = 0],
          seek_to |-> -1]
    ELSE [obj |-> s, seek_to |-> -1]

\* The locked region of pause(): the object it leaves and the local seek_to.
pause(s, flushing_fifo, t) ==
    IF flushing_fifo
    THEN [obj |-> set_state(s, STOPPED, STOP), seek_to |-> s.m_read + s.m_queued]
    ELSE IF s.m_state = ROLLING
    THEN [obj |-> [set_state(s, PAUSED, PAUSE) EXCEPT
                       !.m_read = s.m_read + s.m_queued,
                       !.m_pos0 = s.m_last,
                       !.m_t0 = t,
                       !.m_queued = 0],
          seek_to |-> -1]
    ELSE [obj |-> s, seek_to |-> -1]

resume(s, t) == [s EXCEPT !.m_t0 = t, !.m_Tf = TfUnity]

\* err_underrun() without m_pos0 = m_read.
err_underrun_keep_pos0(s) ==
    set_state([s EXCEPT !.m_Tf = TfZero,
                        !.m_read = s.m_read + s.m_queued,
                        !.m_queued = 0],
              STOPPED, ERR_UNDERRUN)

err_underrun(s) ==
    set_state([s EXCEPT !.m_Tf = TfZero,
                        !.m_read = s.m_read + s.m_queued,
                        !.m_pos0 = s.m_read + s.m_queued,
                        !.m_queued = 0],
              STOPPED, ERR_UNDERRUN)

\* err_overrun() that moves the epoch's time but not its position.
err_overrun_keep_pos0(s, t) ==
    IF s.m_state = ROLLING
    THEN [s EXCEPT !.m_t0 = t]
    ELSE s

\* t is the clock reading of the caller: the clock is taken not to advance
\* between the two get_system_usecs() calls of one post_buffer.
err_overrun(s, t) ==
    IF s.m_state = ROLLING
    THEN [s EXCEPT !.m_pos0 = s.m_read - s.m_latency, !.m_t0 = t]
    ELSE s

\* Takes no mutex in the source; here it is one step of the writer.
forcibly_update_read_pointer(s, rp) == [s EXCEPT !.m_read = rp - s.m_queued]

\* The projection with the sign of dt reversed.
projection_backward(s, t) ==
    LET wall == t - s.m_t0
        dt == IF wall < 0 THEN 0 ELSE MulFloor(s.m_Tf, wall)
    IN  s.m_pos0 - dt

\* The projection of get_stream_usecs before the collision test.
projection(s, t) ==
    LET wall == t - s.m_t0
        dt == IF wall < 0 THEN 0 ELSE MulFloor(s.m_Tf, wall)
    IN  s.m_pos0 + dt

\* get_stream_usecs() that detects the collision but does not clamp t_media.
get_stream_usecs_no_clamp(s, t) ==
    IF s.m_state = PAUSED
    THEN [obj |-> s, ret |-> s.m_pos0, underrun |-> FALSE, rewind |-> FALSE]
    ELSE LET t_media == projection(s, t)
             hit == t_media >= read_pointer(s) /\ s.m_state = ROLLING
             s1 == IF hit THEN err_underrun(s) ELSE s
         IN  [obj |-> [s1 EXCEPT !.m_last = t_media, !.m_now_last = t],
              ret |-> t_media,
              underrun |-> hit,
              rewind |-> t_media < s.m_last]

\* get_stream_usecs() that clamps t_media but does not call err_underrun().
get_stream_usecs_no_handler(s, t) ==
    IF s.m_state = PAUSED
    THEN [obj |-> s, ret |-> s.m_pos0, underrun |-> FALSE, rewind |-> FALSE]
    ELSE LET t_media == projection(s, t)
             hit == t_media >= read_pointer(s) /\ s.m_state = ROLLING
             out == IF hit THEN read_pointer(s) ELSE t_media
         IN  [obj |-> [s EXCEPT !.m_last = out, !.m_now_last = t],
              ret |-> out,
              underrun |-> hit,
              rewind |-> t_media < s.m_last]

get_stream_usecs(s, t) ==
    IF s.m_state = PAUSED
    THEN [obj |-> s, ret |-> s.m_pos0, underrun |-> FALSE, rewind |-> FALSE]
    ELSE LET t_media == projection(s, t)
             hit == t_media >= read_pointer(s) /\ s.m_state = ROLLING
             out == IF hit THEN read_pointer(s) ELSE t_media
             s1 == IF hit THEN err_underrun(s) ELSE s
         IN  [obj |-> [s1 EXCEPT !.m_last = out, !.m_now_last = t],
              ret |-> out,
              underrun |-> hit,
              rewind |-> t_media < s.m_last]

\* The cold start without the 40000 floor of initial_offset.
post_buffer_start_no_floor(s, frame_usecs, t) ==
    LET initial_offset == CDiv(s.m_latency, 2)
    IN  [set_state(s, ROLLING, POST_BUFFER) EXCEPT
             !.m_t0 = t,
             !.m_read = s.m_read + frame_usecs,
             !.m_pos0 = s.m_read + frame_usecs - initial_offset,
             !.m_queued = 0,
             !.m_Tf = TfUnity]

\* post_buffer in state STOPPED (the cold start).
post_buffer_start(s, frame_usecs, t) ==
    LET half == CDiv(s.m_latency, 2)
        initial_offset == IF half < 40000 THEN 40000 ELSE half
    IN  [set_state(s, ROLLING, POST_BUFFER) EXCEPT
             !.m_t0 = t,
             !.m_read = s.m_read + frame_usecs,
             !.m_pos0 = s.m_read + frame_usecs - initial_offset,
             !.m_queued = 0,
             !.m_Tf = TfUnity]

\* The main algorithm without the lower clamp of m_Tf.
post_buffer_update_no_min(s, frame_usecs, t, set_Tf_to_unity) ==
    LET dt == t - s.m_t0
        read1 == s.m_read + s.m_queued
        pos1 == TruncSum(s.m_pos0, s.m_Tf, dt)
        pos1_desired == read1 - s.m_latency
        e == pos1 - pos1_desired
        Tf1 == IF set_Tf_to_unity THEN TfUnity ELSE Frac(s.m_latency - e, s.m_latency)
        s2 == [s EXCEPT !.m_read = read1,
                        !.m_Tf = Tf1,
                        !.m_pos0 = pos1,
                        !.m_t0 = t,
                        !.m_queued = frame_usecs]
        over == Tf1.n >= 2 * Tf1.d
        s3 == IF over THEN err_overrun([s2 EXCEPT !.m_Tf = TfMax], t)
              ELSE s2
        under == s3.m_pos0 >= s3.m_read
    IN  [obj |-> IF under THEN err_underrun(s3) ELSE s3,
         path |-> "feedback", overrun |-> over, underrun |-> under,
         e |-> IF set_Tf_to_unity THEN 0 ELSE e, pos1 |-> pos1]

\* The main algorithm without m_pos0 = pos1.
post_buffer_update_keep_pos0(s, frame_usecs, t, set_Tf_to_unity) ==
    LET dt == t - s.m_t0
        read1 == s.m_read + s.m_queued
        pos1 == TruncSum(s.m_pos0, s.m_Tf, dt)
        pos1_desired == read1 - s.m_latency
        e == pos1 - pos1_desired
        Tf1 == IF set_Tf_to_unity THEN TfUnity ELSE Frac(s.m_latency - e, s.m_latency)
        s2 == [s EXCEPT !.m_read = read1,
                        !.m_Tf = Tf1,
                        !.m_t0 = t,
                        !.m_queued = frame_usecs]
        over == Tf1.n >= 2 * Tf1.d
        s3 == IF over THEN err_overrun([s2 EXCEPT !.m_Tf = TfMax], t)
              ELSE IF 2 * Tf1.n < Tf1.d THEN [s2 EXCEPT !.m_Tf = TfMin]
              ELSE s2
        under == s3.m_pos0 >= s3.m_read
    IN  [obj |-> IF under THEN err_underrun(s3) ELSE s3,
         path |-> "feedback", overrun |-> over, underrun |-> under,
         e |-> IF set_Tf_to_unity THEN 0 ELSE e, pos1 |-> pos1]

\* The main algorithm with pos1_desired counting the buffer being posted.
post_buffer_update_desired_ahead(s, frame_usecs, t, set_Tf_to_unity) ==
    LET dt == t - s.m_t0
        read1 == s.m_read + s.m_queued
        pos1 == TruncSum(s.m_pos0, s.m_Tf, dt)
        pos1_desired == read1 + frame_usecs - s.m_latency
        e == pos1 - pos1_desired
        Tf1 == IF set_Tf_to_unity THEN TfUnity ELSE Frac(s.m_latency - e, s.m_latency)
        s2 == [s EXCEPT !.m_read = read1,
                        !.m_Tf = Tf1,
                        !.m_pos0 = pos1,
                        !.m_t0 = t,
                        !.m_queued = frame_usecs]
        over == Tf1.n >= 2 * Tf1.d
        s3 == IF over THEN err_overrun([s2 EXCEPT !.m_Tf = TfMax], t)
              ELSE IF 2 * Tf1.n < Tf1.d THEN [s2 EXCEPT !.m_Tf = TfMin]
              ELSE s2
        under == s3.m_pos0 >= s3.m_read
    IN  [obj |-> IF under THEN err_underrun(s3) ELSE s3,
         path |-> "feedback", overrun |-> over, underrun |-> under,
         e |-> IF set_Tf_to_unity THEN 0 ELSE e, pos1 |-> pos1]

\* The main algorithm of post_buffer (aggregate_buffers false).
post_buffer_update(s, frame_usecs, t, set_Tf_to_unity) ==
    LET dt == t - s.m_t0
        read1 == s.m_read + s.m_queued
        pos1 == TruncSum(s.m_pos0, s.m_Tf, dt)
        pos1_desired == read1 - s.m_latency
        e == pos1 - pos1_desired
        Tf1 == IF set_Tf_to_unity THEN TfUnity ELSE Frac(s.m_latency - e, s.m_latency)
        s2 == [s EXCEPT !.m_read = read1,
                        !.m_Tf = Tf1,
                        !.m_pos0 = pos1,
                        !.m_t0 = t,
                        !.m_queued = frame_usecs]
        over == Tf1.n >= 2 * Tf1.d
        s3 == IF over THEN err_overrun([s2 EXCEPT !.m_Tf = TfMax], t)
              ELSE IF 2 * Tf1.n < Tf1.d THEN [s2 EXCEPT !.m_Tf = TfMin]
              ELSE s2
        under == s3.m_pos0 >= s3.m_read
    IN  [obj |-> IF under THEN err_underrun(s3) ELSE s3,
         path |-> "feedback", overrun |-> over, underrun |-> under,
         e |-> IF set_Tf_to_unity THEN 0 ELSE e, pos1 |-> pos1]

\* post_buffer() with an aggregation window of frame_usecs/8.
post_buffer_eighth(s, frame_usecs, t) ==
    IF s.m_state = STOPPED
    THEN [obj |-> post_buffer_start(s, frame_usecs, t),
          path |-> "cold", overrun |-> FALSE, underrun |-> FALSE, e |-> 0, pos1 |-> 0]
    ELSE LET set_Tf_to_unity == s.m_state = PAUSED
             s1 == IF s.m_state = PAUSED THEN set_state(s, ROLLING, POST_BUFFER) ELSE s
             dt == t - s1.m_t0
             aggregate_buffers == s1.m_state = ROLLING /\ dt < CDiv(frame_usecs, 8)
         IN  IF aggregate_buffers
             THEN [obj |-> [s1 EXCEPT !.m_queued = s1.m_queued + frame_usecs],
                   path |-> "aggregate", overrun |-> FALSE, underrun |-> FALSE,
                   e |-> 0, pos1 |-> 0]
             ELSE post_buffer_update(s1, frame_usecs, t, set_Tf_to_unity)

post_buffer(s, frame_usecs, t) ==
    IF s.m_state = STOPPED
    THEN [obj |-> post_buffer_start(s, frame_usecs, t),
          path |-> "cold", overrun |-> FALSE, underrun |-> FALSE, e |-> 0, pos1 |-> 0]
    ELSE LET set_Tf_to_unity == s.m_state = PAUSED
             s1 == IF s.m_state = PAUSED THEN set_state(s, ROLLING, POST_BUFFER) ELSE s
             dt == t - s1.m_t0
             aggregate_buffers == s1.m_state = ROLLING /\ dt < CDiv(frame_usecs, 4)
         IN  IF aggregate_buffers
             THEN [obj |-> [s1 EXCEPT !.m_queued = s1.m_queued + frame_usecs],
                   path |-> "aggregate", overrun |-> FALSE, underrun |-> FALSE,
                   e |-> 0, pos1 |-> 0]
             ELSE post_buffer_update(s1, frame_usecs, t, set_Tf_to_unity)

----------------------------------------------------------------------------
(* The state machine. *)

\* TimeInterpolator(): m_state, m_latency, then seek(0) at clock reading t.
Construct(t) ==
    seek([m_state |-> STOPPED, m_latency |-> DEFAULT_AUDIO_LATENCY,
          m_Tf |-> TfZero, m_t0 |-> 0, m_pos0 |-> 0, m_read |-> 0,
          m_queued |-> 0, m_last |-> 0, m_now_last |-> 0], 0, t)

NoCall == [op |-> "none", arg |-> 0, pre |-> Construct(0)]

\* The record kept of a completed call.
Done(op, arg, by, pre, post, ret, path, overrun, underrun, t) ==
    [op |-> op, arg |-> arg, by |-> by, pre |-> pre, post |-> post, ret |-> ret,
     path |-> path, overrun |-> overrun, underrun |-> underrun, t |-> t, w |-> wsteps]

Keep(h, r) == <<r>> \o SubSeq(h, 1, IF Len(h) < 2 THEN Len(h) ELSE 2)

\* The reader threads, and a reader that is in no call.
Readers == {"r1", "r2"}

Returned == [pc |-> "idle", acc |-> 0, inside |-> FALSE]

Init ==
    /\ now = 0
    /\ ti = Construct(0)
    /\ pc = "idle"
    /\ seek_to = -1
    /\ wcall = NoCall
    /\ wsteps = 0
    /\ calls = 0
    /\ hist = <<>>
    /\ mutex = "free"
    /\ rd = [r \in Readers |-> Returned]
    /\ obs = {}

\* A writer call that is one locked region.
WriterStep(op, arg, post, path, overrun, underrun, t) ==
    /\ pc = "idle"
    /\ now' = t
    /\ ti' = post
    /\ wsteps' = wsteps + 1
    /\ calls' = calls + 1
    /\ hist' = Keep(hist, Done(op, arg, "writer", ti, post, 0, path, overrun, underrun, t))
    /\ UNCHANGED <<pc, seek_to, wcall, threads>>

SetLatencyIn(L) ==
    \E l \in L :
        WriterStep("set_latency", l, set_latency(ti, l), "", FALSE, FALSE, now)

SetLatency == SetLatencyIn(Latencies)

Seek ==
    \E m \in SeekTargets, d \in Deltas :
        WriterStep("seek", m, seek(ti, m, now + d), "", FALSE, FALSE, now + d)

Resume ==
    \E d \in Deltas :
        WriterStep("resume", 0, resume(ti, now + d), "", FALSE, FALSE, now + d)

ForciblyUpdateReadPointer ==
    \E rp \in ReadPointers :
        WriterStep("forcibly_update_read_pointer", rp,
                   forcibly_update_read_pointer(ti, rp), "", FALSE, FALSE, now)

PostBuffer ==
    \E f \in Frames, d \in Deltas :
        LET r == post_buffer(ti, f, now + d)
        IN  WriterStep("post_buffer", f, r.obj, r.path, r.overrun, r.underrun, now + d)

Pause ==
    \E d \in Deltas :
        WriterStep("pause", 0, pause(ti, FALSE, now + d).obj, "", FALSE, FALSE, now + d)

\* The locked region of pause(true), entered by stop(), pause(true) or reset().
Flush(op, next) ==
    LET r == pause(ti, TRUE, now)
    IN  /\ pc = "idle"
        /\ ti' = r.obj
        /\ wsteps' = wsteps + 1
        /\ calls' = calls + 1
        /\ seek_to' = r.seek_to
        /\ wcall' = [op |-> op, arg |-> 0, pre |-> ti]
        /\ pc' = IF r.seek_to >= 0 THEN "pause_seek" ELSE next
        /\ hist' = IF r.seek_to >= 0 \/ next # "idle" THEN hist
                   ELSE Keep(hist, Done(op, 0, "writer", ti, r.obj, 0, "", FALSE, FALSE, now))
        /\ UNCHANGED <<now, threads>>

Stop == Flush("stop", "idle")

PauseFlushing == Flush("pause_flushing", "idle")

Reset == Flush("reset", "reset_seek")

\* if (seek_to >= 0) seek(seek_to), after the mutex was released.
PauseSeek ==
    \E d \in Deltas :
        LET post == seek(ti, seek_to, now + d)
            next == IF wcall.op = "reset" THEN "reset_seek" ELSE "idle"
        IN  /\ pc = "pause_seek"
            /\ now' = now + d
            /\ ti' = post
            /\ wsteps' = wsteps + 1
            /\ pc' = next
            /\ hist' = IF next = "idle"
                       THEN Keep(hist, Done(wcall.op, 0, "writer", wcall.pre, post, 0, "",
                                            FALSE, FALSE, now + d))
                       ELSE hist
            /\ UNCHANGED <<seek_to, wcall, calls, threads>>

\* The seek(0) of reset().
ResetSeek ==
    \E d \in Deltas :
        LET post == seek(ti, 0, now + d)
        IN  /\ pc = "reset_seek"
            /\ now' = now + d
            /\ ti' = post
            /\ wsteps' = wsteps + 1
            /\ pc' = "idle"
            /\ hist' = Keep(hist, Done("reset", 0, "writer", wcall.pre, post, 0, "",
                                       FALSE, FALSE, now + d))
            /\ UNCHANGED <<seek_to, wcall, calls, threads>>

\* The reader thread; it may run between the locked regions of a writer call.
GetStreamUsecs ==
    \E d \in Deltas :
        LET r == get_stream_usecs(ti, now + d)
        IN  /\ now' = now + d
            /\ ti' = r.obj
            /\ calls' = calls + 1
            /\ hist' = Keep(hist, Done("get_stream_usecs", 0, "reader", ti, r.obj, r.ret,
                                       "", FALSE, r.underrun, now + d))
            /\ UNCHANGED <<pc, seek_to, wcall, wsteps, threads>>

\* Every public call, at most MaxCalls of them.
Next ==
    \/ calls < MaxCalls /\ SetLatency
    \/ calls < MaxCalls /\ Seek
    \/ calls < MaxCalls /\ Resume
    \/ calls < MaxCalls /\ ForciblyUpdateReadPointer
    \/ calls < MaxCalls /\ PostBuffer
    \/ calls < MaxCalls /\ Pause
    \/ calls < MaxCalls /\ Stop
    \/ calls < MaxCalls /\ PauseFlushing
    \/ calls < MaxCalls /\ Reset
    \/ PauseSeek
    \/ ResetSeek
    \/ calls < MaxCalls /\ GetStreamUsecs

Spec == Init /\ [][Next]_vars

\* Playback: the writer posts and pauses, the latency is set, the reader reads;
\* at most MaxPlayCalls calls.
NextPlay ==
    \/ calls < MaxPlayCalls /\ SetLatencyIn(PlayLatencies)
    \/ calls < MaxPlayCalls /\ PostBuffer
    \/ calls < MaxPlayCalls /\ Pause
    \/ calls < MaxPlayCalls /\ GetStreamUsecs

SpecPlay == Init /\ [][NextPlay]_vars

----------------------------------------------------------------------------
(* The thread-level specification.  The writer's position pc is "idle",    *)
(* "lock" (blocked in or about to enter m_mutex.lock() of its call),       *)
(* "pb_epoch", "eu_fold", "eu_pin" (inside post_buffer, mutex held),       *)
(* "unlock" (region done, mutex held), and for stop()/pause(true)/reset()  *)
(* "pause_seek", "reset_seek" (at the Autolock of the seek() that follows) *)
(* and "pause_seek_unlock", "reset_seek_unlock".                           *)

MaxThreadCalls == 3

ThreadDeltas == {0, 100000}
ThreadFrames == {20000}
ThreadSeekTargets == {300000}

FlushOps == {"stop", "pause_flushing", "reset"}
LockPoints == {"lock", "pause_seek", "reset_seek"}
UnlockPoints == {"unlock", "pause_seek_unlock", "reset_seek_unlock"}
HoldPoints == {"pb_epoch", "eu_fold", "eu_pin"} \cup UnlockPoints

\* Mutex::lock() returns to thread th once the mutex is free.
Mutex_lock(m, th) == th

\* A region that ends without releasing m_mutex when stop()/pause(true) is
\* about to call seek().
Mutex_unlock_after_seek(op, at, m) ==
    IF op \in FlushOps /\ at = "unlock" THEN m ELSE "free"

\* Every locked region ends in m_mutex.unlock() or in the destructor of its
\* Mutex::Autolock; op is the public call, at the writer's or reader's position.
Mutex_unlock(op, at, m) == "free"

\* Where the writer goes when it has released the mutex at position `at'.
after_unlock(op, at, st) ==
    CASE at = "unlock" /\ op \in FlushOps /\ st >= 0 -> "pause_seek"
      [] at = "unlock" /\ op \in FlushOps /\ st < 0 ->
            IF op = "reset" THEN "reset_seek" ELSE "idle"
      [] at = "pause_seek_unlock" ->
            IF op = "reset" THEN "reset_seek" ELSE "idle"
      [] OTHER -> "idle"

\* post_buffer() from its Autolock up to and including m_read += m_queued.
pb_enter(s, frame_usecs, t) ==
    IF s.m_state = STOPPED
    THEN [obj |-> post_buffer_start(s, frame_usecs, t), next |-> "unlock",
          unity |-> FALSE]
    ELSE LET set_Tf_to_unity == s.m_state = PAUSED
             s1 == IF s.m_state = PAUSED THEN set_state(s, ROLLING, POST_BUFFER) ELSE s
             dt == t - s1.m_t0
             aggregate_buffers == s1.m_state = ROLLING /\ dt < CDiv(frame_usecs, 4)
         IN  IF aggregate_buffers
             THEN [obj |-> [s1 EXCEPT !.m_queued = s1.m_queued + frame_usecs],
                   next |-> "unlock", unity |-> set_Tf_to_unity]
             ELSE [obj |-> [s1 EXCEPT !.m_read = s1.m_read + s1.m_queued],
                   next |-> "pb_epoch", unity |-> set_Tf_to_unity]

\* post_buffer() from pos1 = ... to the test m_pos0 >= m_read; m_read has
\* been folded already.
pb_epoch(s, frame_usecs, t, set_Tf_to_unity) ==
    LET dt == t - s.m_t0
        pos1 == TruncSum(s.m_pos0, s.m_Tf, dt)
        pos1_desired == s.m_read - s.m_latency
        e == pos1 - pos1_desired
        Tf1 == IF set_Tf_to_unity THEN TfUnity ELSE Frac(s.m_latency - e, s.m_latency)
        s2 == [s EXCEPT !.m_Tf = Tf1,
                        !.m_pos0 = pos1,
                        !.m_t0 = t,
                        !.m_queued = frame_usecs]
        over == Tf1.n >= 2 * Tf1.d
        s3 == IF over THEN err_overrun([s2 EXCEPT !.m_Tf = TfMax], t)
              ELSE IF 2 * Tf1.n < Tf1.d THEN [s2 EXCEPT !.m_Tf = TfMin]
              ELSE s2
    IN  [obj |-> s3, next |-> IF s3.m_pos0 >= s3.m_read THEN "eu_fold" ELSE "unlock"]

\* err_underrun() up to m_read += m_queued, and the rest of it.
eu_fold(s) == [s EXCEPT !.m_Tf = TfZero, !.m_read = s.m_read + s.m_queued]

eu_pin(s) ==
    set_state([s EXCEPT !.m_pos0 = s.m_read, !.m_queued = 0], STOPPED, ERR_UNDERRUN)

\* The first locked region of the writer's call op(arg), entered at clock
\* reading t.
first_region(op, arg, s, t) ==
    CASE op = "post_buffer" ->
            LET r == pb_enter(s, arg, t)
            IN  [obj |-> r.obj, next |-> r.next, unity |-> r.unity, seek_to |-> seek_to]
      [] op = "seek" ->
            [obj |-> seek(s, arg, t), next |-> "unlock", unity |-> FALSE,
             seek_to |-> seek_to]
      [] op = "resume" ->
            [obj |-> resume(s, t), next |-> "unlock", unity |-> FALSE,
             seek_to |-> seek_to]
      [] op = "pause" ->
            [obj |-> pause(s, FALSE, t).obj, next |-> "unlock", unity |-> FALSE,
             seek_to |-> seek_to]
      [] op \in FlushOps ->
            [obj |-> pause(s, TRUE, t).obj, next |-> "unlock", unity |-> FALSE,
             seek_to |-> pause(s, TRUE, t).seek_to]

\* The writer holds the mutex inside post_buffer.
InPostBuffer == wcall.op = "post_buffer" /\ pc \in HoldPoints

\* The writer calls op(arg).
TCall(op, arg) ==
    /\ pc = "idle"
    /\ pc' = "lock"
    /\ wcall' = [op |-> op, arg |-> arg, pre |-> ti, post |-> ti, t |-> now,
                 unity |-> FALSE]
    /\ calls' = calls + 1
    /\ obs' = {}
    /\ UNCHANGED <<ti, now, seek_to, wsteps, hist, mutex, rd>>

TCallPostBuffer == \E f \in ThreadFrames : TCall("post_buffer", f)

TCallSeek == \E m \in ThreadSeekTargets : TCall("seek", m)

TCallLifeCycle ==
    \E op \in {"resume", "pause", "stop", "pause_flushing", "reset"} : TCall(op, 0)

\* set_latency() and forcibly_update_read_pointer() take no mutex.
TSetLatency ==
    /\ pc = "idle"
    /\ \E l \in PlayLatencies : ti' = set_latency(ti, l)
    /\ calls' = calls + 1
    /\ UNCHANGED <<now, pc, seek_to, wcall, wsteps, hist, threads>>

TForciblyUpdateReadPointer ==
    /\ pc = "idle"
    /\ \E rp \in ReadPointers : ti' = forcibly_update_read_pointer(ti, rp)
    /\ calls' = calls + 1
    /\ UNCHANGED <<now, pc, seek_to, wcall, wsteps, hist, threads>>

\* The writer gets the mutex of its call's first region and runs the region,
\* of post_buffer the part up to m_read += m_queued.
TLock ==
    \E d \in ThreadDeltas :
        LET r == first_region(wcall.op, wcall.arg, ti, now + d)
        IN  /\ pc = "lock" /\ mutex = "free"
            /\ mutex' = Mutex_lock(mutex, "writer")
            /\ now' = now + d
            /\ ti' = r.obj
            /\ pc' = r.next
            /\ seek_to' = r.seek_to
            /\ wcall' = [wcall EXCEPT !.pre = ti, !.t = now + d, !.unity = r.unity]
            /\ rd' = [x \in Readers |-> [rd[x] EXCEPT !.inside = FALSE]]
            /\ UNCHANGED <<wsteps, calls, hist, obs>>

TPostEpoch ==
    LET r == pb_epoch(ti, wcall.arg, wcall.t, wcall.unity)
    IN  /\ pc = "pb_epoch"
        /\ ti' = r.obj
        /\ pc' = r.next
        /\ UNCHANGED <<now, seek_to, wcall, wsteps, calls, hist, threads>>

TErrUnderrunFold ==
    /\ pc = "eu_fold"
    /\ ti' = eu_fold(ti)
    /\ pc' = "eu_pin"
    /\ UNCHANGED <<now, seek_to, wcall, wsteps, calls, hist, threads>>

TErrUnderrunPin ==
    /\ pc = "eu_pin"
    /\ ti' = eu_pin(ti)
    /\ pc' = "unlock"
    /\ UNCHANGED <<now, seek_to, wcall, wsteps, calls, hist, threads>>

\* The writer releases the mutex; the call returns or goes on to its seek().
TUnlock ==
    /\ pc \in UnlockPoints
    /\ mutex' = Mutex_unlock(wcall.op, pc, mutex)
    /\ pc' = after_unlock(wcall.op, pc, seek_to)
    /\ wcall' = [wcall EXCEPT !.post = ti]
    /\ UNCHANGED <<ti, now, seek_to, wsteps, calls, hist, rd, obs>>

\* seek(seek_to) of pause(true) and seek(0) of reset(): Autolock and body.
TSeekLock ==
    \E d \in ThreadDeltas :
        /\ pc \in {"pause_seek", "reset_seek"} /\ mutex = "free"
        /\ mutex' = Mutex_lock(mutex, "writer")
        /\ now' = now + d
        /\ ti' = seek(ti, IF pc = "pause_seek" THEN seek_to ELSE 0, now + d)
        /\ pc' = IF pc = "pause_seek" THEN "pause_seek_unlock" ELSE "reset_seek_unlock"
        /\ UNCHANGED <<seek_to, wcall, wsteps, calls, hist, rd, obs>>

\* Reader r calls get_stream_usecs().
RCallGetStreamUsecs(r) ==
    /\ rd[r].pc = "idle"
    /\ rd' = [rd EXCEPT ![r] = [pc |-> "lock", acc |-> 0, inside |-> FALSE]]
    /\ calls' = calls + 1
    /\ UNCHANGED <<ti, now, pc, seek_to, wcall, wsteps, hist, mutex, obs>>

\* m_mutex.lock() of get_stream_usecs() and its body.
RLock(r) ==
    \E d \in ThreadDeltas :
        LET g == get_stream_usecs(ti, now + d)
        IN  /\ rd[r].pc = "lock" /\ mutex = "free"
            /\ mutex' = Mutex_lock(mutex, r)
            /\ now' = now + d
            /\ ti' = g.obj
            /\ rd' = [rd EXCEPT ![r] = [pc |-> "unlock", acc |-> g.ret, inside |-> FALSE]]
            /\ UNCHANGED <<pc, seek_to, wcall, wsteps, calls, hist, obs>>

\* end: m_mutex.unlock(); return t_media.
RUnlock(r) ==
    /\ rd[r].pc = "unlock"
    /\ mutex' = Mutex_unlock("get_stream_usecs", "unlock", mutex)
    /\ rd' = [rd EXCEPT ![r] = Returned]
    /\ UNCHANGED <<ti, now, pc, seek_to, wcall, wsteps, calls, hist, obs>>

\* What a reader got from an accessor while the writer was inside post_buffer.
Observed(inside, op, val) ==
    IF inside /\ InPostBuffer THEN obs \cup {[op |-> op, val |-> val]} ELSE obs

\* usecs_queued(): one load of m_queued, no mutex.
RUsecsQueued(r) ==
    /\ rd[r].pc = "idle"
    /\ obs' = Observed(TRUE, "usecs_queued", usecs_queued(ti))
    /\ calls' = calls + 1
    /\ UNCHANGED <<ti, now, pc, seek_to, wcall, wsteps, hist, mutex, rd>>

\* read_pointer(): m_read + m_queued, two loads in either order, no mutex.
RReadPointerFirst(r) ==
    \E first \in {"m_read", "m_queued"} :
        /\ rd[r].pc = "idle"
        /\ rd' = [rd EXCEPT ![r] = [pc |-> IF first = "m_read" THEN "rp_queued" ELSE "rp_read",
                                    acc |-> ti[first],
                                    inside |-> InPostBuffer]]
        /\ calls' = calls + 1
        /\ UNCHANGED <<ti, now, pc, seek_to, wcall, wsteps, hist, mutex, obs>>

RReadPointerSecond(r) ==
    /\ rd[r].pc \in {"rp_queued", "rp_read"}
    /\ obs' = Observed(rd[r].inside, "read_pointer",
                       rd[r].acc + (IF rd[r].pc = "rp_queued" THEN ti.m_queued
                                    ELSE ti.m_read))
    /\ rd' = [rd EXCEPT ![r] = Returned]
    /\ UNCHANGED <<ti, now, pc, seek_to, wcall, wsteps, calls, hist, mutex>>

\* The steps of a call that has been made.
WriterRun ==
    TLock \/ TPostEpoch \/ TErrUnderrunFold \/ TErrUnderrunPin \/ TUnlock \/ TSeekLock

ReaderRun(r) == RLock(r) \/ RUnlock(r) \/ RReadPointerSecond(r)

\* One writer and the readers; at most MaxThreadCalls calls are made.
NextThreads ==
    \/ calls < MaxThreadCalls /\ TCallPostBuffer
    \/ calls < MaxThreadCalls /\ TCallSeek
    \/ calls < MaxThreadCalls /\ TCallLifeCycle
    \/ calls < MaxThreadCalls /\ TSetLatency
    \/ calls < MaxThreadCalls /\ TForciblyUpdateReadPointer
    \/ TLock
    \/ TPostEpoch
    \/ TErrUnderrunFold
    \/ TErrUnderrunPin
    \/ TUnlock
    \/ TSeekLock
    \/ \E r \in Readers : calls < MaxThreadCalls /\ RCallGetStreamUsecs(r)
    \/ \E r \in Readers : RLock(r)
    \/ \E r \in Readers : RUnlock(r)
    \/ \E r \in Readers : calls < MaxThreadCalls /\ RUsecsQueued(r)
    \/ \E r \in Readers : calls < MaxThreadCalls /\ RReadPointerFirst(r)
    \/ \E r \in Readers : RReadPointerSecond(r)

\* Every thread is scheduled: a step of a call that stays possible is
\* eventually taken.  lock() is possible while the mutex is free; with a
\* bounded number of calls the other threads cannot take it for ever.
ThreadsFair ==
    /\ WF_vars(WriterRun)
    /\ \A r \in Readers : WF_vars(ReaderRun(r))

SpecThreads == Init /\ [][NextThreads]_vars /\ ThreadsFair

----------------------------------------------------------------------------
(* Steady playback: the latency is set, then post_buffer(f) is called      *)
(* every f microseconds with one f below half the latency.                 *)

MaxSteadyCalls == 300

SteadyLatencies == {10000, 20000, 100000}
SteadyFrames == {4000, 5000, 40000}

SteadySetLatency ==
    /\ calls = 0
    /\ SetLatencyIn(SteadyLatencies)

\* The first post_buffer(f), in STOPPED.
SteadyColdStart ==
    /\ calls = 1
    /\ \E f \in SteadyFrames :
           LET r == post_buffer(ti, f, now + f)
           IN  /\ 2 * f < ti.m_latency
               /\ WriterStep("post_buffer", f, r.obj, r.path, r.overrun, r.underrun,
                             now + f)

\* post_buffer(f) again, f microseconds after the last one.
SteadyPost ==
    /\ calls >= 2
    /\ LET f == hist[1].arg
           r == post_buffer(ti, f, now + f)
       IN  WriterStep("post_buffer", f, r.obj, r.path, r.overrun, r.underrun, now + f)

NextSteady ==
    \/ SteadySetLatency
    \/ SteadyColdStart
    \/ calls < MaxSteadyCalls /\ SteadyPost

SpecSteady == Init /\ [][NextSteady]_vars

----------------------------------------------------------------------------
(* The life cycle: the writer seeks, posts, pauses, resumes and stops, at  *)
(* most MaxCycleCalls calls.                                               *)

MaxCycleCalls == 5

CycleDeltas == {0, 20000}
CycleFrames == {20000}
CycleSeekTargets == {-100000, 300000}

CycleSeek ==
    \E m \in CycleSeekTargets, d \in CycleDeltas :
        WriterStep("seek", m, seek(ti, m, now + d), "", FALSE, FALSE, now + d)

CyclePostBuffer ==
    \E f \in CycleFrames, d \in CycleDeltas :
        LET r == post_buffer(ti, f, now + d)
        IN  WriterStep("post_buffer", f, r.obj, r.path, r.overrun, r.underrun, now + d)

CyclePause ==
    \E d \in CycleDeltas :
        WriterStep("pause", 0, pause(ti, FALSE, now + d).obj, "", FALSE, FALSE, now + d)

CycleResume ==
    \E d \in CycleDeltas :
        WriterStep("resume", 0, resume(ti, now + d), "", FALSE, FALSE, now + d)

NextCycle ==
    \/ calls < MaxCycleCalls /\ CycleSeek
    \/ calls < MaxCycleCalls /\ CyclePostBuffer
    \/ calls < MaxCycleCalls /\ CyclePause
    \/ calls < MaxCycleCalls /\ CycleResume
    \/ calls < MaxCycleCalls /\ Stop
    \/ PauseSeek

SpecCycle == Init /\ [][NextCycle]_vars

----------------------------------------------------------------------------
(* Properties.  hist[1] is the call that completed last, hist[2] the one   *)
(* before it, hist[3] the one before that.                                 *)

Min(a, b) == IF a < b THEN a ELSE b
Max(a, b) == IF a > b THEN a ELSE b

IsRead(c) == c.op = "get_stream_usecs"
IsPost(c) == c.op = "post_buffer"
IsStop(c) == c.op \in {"stop", "pause_flushing", "reset"}

\* 1/2 <= tf <= 2
TfInRange(tf) == 2 * tf.n >= tf.d /\ tf.n <= 2 * tf.d

\* The state changes the chart of set_state() allows a single call to make.
ChartEdge(c) ==
    LET from == c.pre.m_state
        to == c.post.m_state
    IN  \/ from = to
        \/ from = STOPPED /\ to = ROLLING /\ IsPost(c)
        \/ from = PAUSED /\ to = ROLLING /\ IsPost(c)
        \/ from = ROLLING /\ to = PAUSED /\ c.op = "pause"
        \/ from = ROLLING /\ to = STOPPED /\ (IsStop(c) \/ c.underrun)
        \/ from = PAUSED /\ to = STOPPED /\ (IsStop(c) \/ c.op = "seek")

\* PAUSED -> ROLLING -> STOPPED inside one post_buffer: each set_state() of it
\* is one the error check of set_state() accepts.
ResumedIntoUnderrun(c) ==
    /\ c.pre.m_state = PAUSED /\ c.post.m_state = STOPPED
    /\ IsPost(c) /\ c.path = "feedback" /\ c.underrun
    /\ ~set_state_error(PAUSED, ROLLING, POST_BUFFER)
    /\ ~set_state_error(ROLLING, STOPPED, ERR_UNDERRUN)

\* C1 as stated: the initial state is STOPPED, and every public call leaves the
\* state unchanged or moves it along one edge of the chart (STOPPED->ROLLING and
\* PAUSED->ROLLING by post_buffer, ROLLING->PAUSED by pause(false),
\* ROLLING->STOPPED by stop/pause(true) or an underrun, PAUSED->STOPPED by stop
\* or seek).
C1_OnlyChartEdges ==
    /\ calls = 0 => ti.m_state = STOPPED
    /\ Len(hist) >= 1 => ChartEdge(hist[1])

\* C1 amended: as above, with one more combination: a post_buffer called in
\* PAUSED whose feedback step underruns goes PAUSED -> ROLLING -> STOPPED and
\* returns in STOPPED.
C1_ChartEdgesOrResumedIntoUnderrun ==
    /\ calls = 0 => ti.m_state = STOPPED
    /\ Len(hist) >= 1 => ChartEdge(hist[1]) \/ ResumedIntoUnderrun(hist[1])

C1_Witness ==
    /\ Len(hist) >= 1
    /\ ResumedIntoUnderrun(hist[1])

\* C2: a get_stream_usecs called in ROLLING returns at most read + queued as
\* they stand at the call.
C2_ReadPointerEnvelope ==
    Len(hist) >= 1 /\ IsRead(hist[1]) /\ hist[1].pre.m_state = ROLLING
        => hist[1].ret <= read_pointer(hist[1].pre)

C2_Witness ==
    /\ Len(hist) >= 1 /\ IsRead(hist[1]) /\ hist[1].pre.m_state = ROLLING
    /\ projection(hist[1].pre, hist[1].t) > read_pointer(hist[1].pre)
    /\ hist[1].ret = read_pointer(hist[1].pre)

\* Two get_stream_usecs calls in a row, no locked region of the writer between.
ReadAfterRead ==
    /\ Len(hist) >= 2 /\ IsRead(hist[1]) /\ IsRead(hist[2])
    /\ hist[1].w = hist[2].w

\* C3: of two get_stream_usecs calls with no mutating call between them, the
\* first made in ROLLING, the second returns at least what the first returned
\* (also when one of them hits the underrun).
C3_MonotonicWhileRolling ==
    ReadAfterRead /\ hist[2].pre.m_state = ROLLING
        => hist[1].ret >= hist[2].ret

C3_Witness ==
    /\ ReadAfterRead
    /\ hist[2].pre.m_state = ROLLING /\ hist[1].pre.m_state = ROLLING
    /\ hist[1].t > hist[2].t
    /\ hist[1].ret > hist[2].ret

\* C4 as stated: after a post_buffer that did not aggregate, 1/2 <= Tf <= 2.
C4_TfBoundedAfterPost ==
    Len(hist) >= 1 /\ IsPost(hist[1]) /\ hist[1].path # "aggregate"
        => TfInRange(hist[1].post.m_Tf)

\* C4 amended: after a post_buffer that did not aggregate, 1/2 <= Tf <= 2,
\* unless its feedback step ran the underrun handler: then the call returns
\* in STOPPED with Tf = 0.
C4_TfBoundedUnlessUnderrun ==
    Len(hist) >= 1 /\ IsPost(hist[1]) /\ hist[1].path # "aggregate"
        => IF hist[1].underrun
           THEN hist[1].post.m_Tf = TfZero /\ hist[1].post.m_state = STOPPED
           ELSE TfInRange(hist[1].post.m_Tf) /\ hist[1].post.m_state = ROLLING

C4_Witness ==
    /\ Len(hist) >= 1 /\ IsPost(hist[1]) /\ hist[1].path = "feedback"
    /\ hist[1].underrun
    /\ hist[1].post.m_Tf = TfZero

\* A read that leaves ROLLING, a post_buffer that leaves ROLLING, a read.
ReadPostRead ==
    /\ Len(hist) >= 3 /\ IsRead(hist[3]) /\ IsPost(hist[2]) /\ IsRead(hist[1])
    /\ hist[3].pre.m_state = ROLLING /\ hist[3].post.m_state = ROLLING
    /\ hist[2].post.m_state = ROLLING

\* C5: a read in ROLLING returning r1, then a post_buffer that leaves the state
\* ROLLING, then a read returning r2: r2 >= r1, with no underrun on the way.
C5_MonotonicAcrossPost ==
    ReadPostRead => hist[1].ret >= hist[3].ret

C5_Witness ==
    /\ ReadPostRead
    /\ hist[2].path = "feedback" /\ hist[2].overrun
    /\ hist[1].ret > hist[3].ret

\* C6 as stated: outside PAUSED, get_stream_usecs returns at least m_last.
C6_FlooredToLast ==
    Len(hist) >= 1 /\ IsRead(hist[1]) /\ hist[1].pre.m_state # PAUSED
        => hist[1].ret >= hist[1].pre.m_last

\* C6 amended: outside PAUSED, get_stream_usecs returns at least the smaller of
\* pos0 and read + queued, and records what it returns in m_last; a value
\* below the former m_last is returned as it is.
C6_FlooredToEpoch ==
    Len(hist) >= 1 /\ IsRead(hist[1]) /\ hist[1].pre.m_state # PAUSED
        => /\ hist[1].ret >= Min(hist[1].pre.m_pos0, read_pointer(hist[1].pre))
           /\ hist[1].post.m_last = hist[1].ret

C6_Witness ==
    /\ Len(hist) >= 2 /\ IsRead(hist[1]) /\ hist[1].pre.m_state = ROLLING
    /\ IsPost(hist[2]) /\ hist[2].path = "cold"
    /\ hist[1].ret < hist[1].pre.m_last
    /\ hist[1].ret >= hist[1].pre.m_pos0

\* C7: a read straight after the pause(false) that left ROLLING returns the
\* m_last of before the pause, and a read straight after a read made in PAUSED
\* returns the same value again; m_last stays what it was.
C7_PauseFreezesTime ==
    /\ Len(hist) >= 2 /\ IsRead(hist[1]) /\ hist[2].op = "pause"
       /\ hist[2].pre.m_state = ROLLING /\ hist[1].w = hist[2].w + 1
           => /\ hist[2].post.m_state = PAUSED
              /\ hist[1].ret = hist[2].pre.m_last
              /\ hist[1].post.m_last = hist[2].pre.m_last
    /\ ReadAfterRead /\ hist[2].pre.m_state = PAUSED
           => /\ hist[1].ret = hist[2].ret
              /\ hist[1].ret = hist[1].post.m_last

C7_Witness ==
    /\ Len(hist) >= 3 /\ ReadAfterRead /\ hist[3].op = "pause"
    /\ hist[3].pre.m_state = ROLLING
    /\ hist[3].pre.m_pos0 # hist[3].pre.m_last
    /\ hist[1].t > hist[2].t /\ hist[2].t > hist[3].t
    /\ hist[1].ret = hist[3].pre.m_last

\* C8: when stop() or pause(true) returns, the state is STOPPED and the epoch
\* is pinned at the read + queued of before the call, with Tf = 0.
C8_StopRepins ==
    Len(hist) >= 1 /\ hist[1].op \in {"stop", "pause_flushing"}
        => /\ hist[1].post.m_state = STOPPED
           /\ hist[1].post.m_pos0 = read_pointer(hist[1].pre)
           /\ hist[1].post.m_read = read_pointer(hist[1].pre)
           /\ hist[1].post.m_last = read_pointer(hist[1].pre)
           /\ hist[1].post.m_queued = 0
           /\ hist[1].post.m_Tf = TfZero

\* Two post_buffer calls in a row, the second made in ROLLING less than a
\* quarter of its frame_usecs after the first.
PostSoonAfterPost ==
    /\ Len(hist) >= 2 /\ IsPost(hist[1]) /\ IsPost(hist[2])
    /\ hist[1].w = hist[2].w + 1
    /\ hist[1].pre.m_state = ROLLING
    /\ 4 * (hist[1].t - hist[2].t) < hist[1].arg

\* A call that only added frame_usecs to m_queued.
OnlyQueued(c) ==
    c.post = [c.pre EXCEPT !.m_queued = c.pre.m_queued + c.arg]

\* C9 as stated: the second of two post_buffer(f) calls less than f/4 apart
\* only adds f to queued, whichever path the first took.
C9_AggregatesAfterAnyPost ==
    PostSoonAfterPost /\ hist[1].arg = hist[2].arg => OnlyQueued(hist[1])

\* C9 amended: the second of two post_buffer calls less than f/4 apart only
\* adds f to queued when the first pinned the epoch (cold start or feedback
\* step); after an aggregated first call the window still runs from t0.
C9_AggregatesAfterEpochPost ==
    PostSoonAfterPost /\ hist[2].path \in {"cold", "feedback"}
        => hist[1].path = "aggregate" /\ OnlyQueued(hist[1])

C9_Witness ==
    /\ PostSoonAfterPost /\ hist[2].path = "feedback"
    /\ hist[1].t > hist[2].t
    /\ OnlyQueued(hist[1])

\* C10: post_buffer(f) in STOPPED leaves ROLLING, t0 = now, read = read + f,
\* pos0 = read - max(latency/2, 40000), queued = 0, Tf = 1 and nothing else.
C10_ColdStart ==
    Len(hist) >= 1 /\ IsPost(hist[1]) /\ hist[1].pre.m_state = STOPPED
        => hist[1].post =
               [hist[1].pre EXCEPT
                    !.m_state = ROLLING,
                    !.m_t0 = hist[1].t,
                    !.m_read = hist[1].pre.m_read + hist[1].arg,
                    !.m_pos0 = hist[1].pre.m_read + hist[1].arg
                                   - Max(hist[1].pre.m_latency \div 2, 40000),
                    !.m_queued = 0,
                    !.m_Tf = TfUnity]

C10_Witness ==
    /\ Len(hist) >= 1 /\ IsPost(hist[1]) /\ hist[1].pre.m_state = STOPPED
    /\ hist[1].pre.m_latency = 100000 /\ hist[1].pre.m_read = 0
    /\ hist[1].arg = 20000
    /\ hist[1].post.m_read = 20000 /\ hist[1].post.m_pos0 = -30000
    /\ hist[1].post.m_state = ROLLING /\ hist[1].post.m_Tf = TfUnity

\* latency = 100000; post_buffer(20000) in STOPPED with read = 0 at wall time
\* 0, then post_buffer(20000) at wall time 20000 with no call in between.
LockIn ==
    /\ Len(hist) >= 2 /\ IsPost(hist[1]) /\ IsPost(hist[2])
    /\ hist[1].w = hist[2].w + 1
    /\ hist[2].pre.m_state = STOPPED /\ hist[2].pre.m_read = 0
    /\ hist[2].pre.m_latency = 100000
    /\ hist[2].arg = 20000 /\ hist[2].t = 0
    /\ hist[1].arg = 20000 /\ hist[1].t = 20000

\* What the second call of LockIn computes.
LockInStep == post_buffer(hist[1].pre, hist[1].arg, hist[1].t)

\* C11 as stated: the second call of the lock-in advances t0, leaves
\* read = 40000, computes pos1 = -10000, pos1_desired = read - latency = -60000
\* and e = 50000, and leaves Tf = 1 - e/latency = 0.5.
C11_LockInReadIsBothPosts ==
    LockIn =>
        /\ hist[1].post.m_t0 = 20000 /\ hist[1].post.m_t0 > hist[1].pre.m_t0
        /\ hist[1].post.m_read = 40000
        /\ LockInStep.pos1 = -10000
        /\ hist[1].post.m_read - hist[1].post.m_latency = -60000
        /\ LockInStep.e = 50000
        /\ hist[1].post.m_Tf = Frac(100000 - 50000, 100000)

\* C11 amended: the cold start put its buffer into read and left queued = 0,
\* so the second call advances t0, leaves read = 20000 and queued = 20000,
\* computes pos1 = -10000, pos1_desired = read - latency = -80000 and
\* e = 70000; 1 - e/latency = 0.3 is below 0.5 and Tf is left at 0.5.
C11_LockInReadIsFirstPost ==
    LockIn =>
        /\ hist[1].path = "feedback" /\ ~hist[1].underrun /\ ~hist[1].overrun
        /\ hist[1].post.m_t0 = 20000 /\ hist[1].post.m_t0 > hist[1].pre.m_t0
        /\ hist[1].post.m_read = 20000 /\ hist[1].post.m_queued = 20000
        /\ LockInStep.pos1 = -10000 /\ hist[1].post.m_pos0 = -10000
        /\ hist[1].post.m_read - hist[1].post.m_latency = -80000
        /\ LockInStep.e = 70000
        /\ 2 * Frac(100000 - LockInStep.e, 100000).n
               < Frac(100000 - LockInStep.e, 100000).d
        /\ hist[1].post.m_Tf = TfMin
        /\ hist[1].post.m_state = ROLLING

C11_Witness ==
    /\ LockIn
    /\ hist[1].post.m_read = 20000 /\ hist[1].post.m_queued = 20000
    /\ hist[1].post.m_Tf = TfMin

\* A get_stream_usecs called in ROLLING whose projection has reached
\* read + queued.
ReadHitsReadPointer(c) ==
    /\ IsRead(c) /\ c.pre.m_state = ROLLING
    /\ projection(c.pre, c.t) >= read_pointer(c.pre)

\* C12: a get_stream_usecs called in ROLLING with its projection at or beyond
\* read + queued returns exactly read + queued and leaves STOPPED, Tf = 0,
\* queued = 0 and pos0 = read = last = the returned value.
C12_UnderrunViaRead ==
    Len(hist) >= 1 /\ ReadHitsReadPointer(hist[1])
        => /\ hist[1].ret = hist[1].pre.m_read + hist[1].pre.m_queued
           /\ hist[1].post.m_state = STOPPED
           /\ hist[1].post.m_Tf = TfZero
           /\ hist[1].post.m_queued = 0
           /\ hist[1].post.m_pos0 = hist[1].ret
           /\ hist[1].post.m_read = hist[1].ret
           /\ hist[1].post.m_last = hist[1].ret

C12_Witness ==
    /\ Len(hist) >= 1 /\ ReadHitsReadPointer(hist[1])
    /\ projection(hist[1].pre, hist[1].t) = read_pointer(hist[1].pre)
    /\ hist[1].pre.m_queued > 0
    /\ hist[1].post.m_state = STOPPED
    /\ hist[1].post.m_read = hist[1].pre.m_read + hist[1].pre.m_queued

\* C13 as stated: every post_buffer called in PAUSED takes the feedback step
\* with set_Tf_to_unity and returns in ROLLING with Tf = 1.0.
C13_PausedPostRelocks ==
    Len(hist) >= 1 /\ IsPost(hist[1]) /\ hist[1].pre.m_state = PAUSED
        => hist[1].post.m_state = ROLLING /\ hist[1].post.m_Tf = TfUnity

\* The position error e of a feedback step taken from the state c.pre.
FeedbackError(c) ==
    TruncSum(c.pre.m_pos0, c.pre.m_Tf, c.t - c.pre.m_t0)
        - (c.pre.m_read + c.pre.m_queued - c.pre.m_latency)

\* A post_buffer whose feedback step computes Tf = 1 - e/latency >= 2.
ComputesOverrun(c) ==
    /\ IsPost(c) /\ c.path = "feedback" /\ c.pre.m_state = ROLLING
    /\ FeedbackError(c) <= -c.pre.m_latency

\* C14: when the feedback step computes Tf >= 2.0 (e <= -latency) the call
\* returns with Tf = 2.0, pos0 = read - latency, t0 = now and the state
\* ROLLING; the underrun handler does not run in the same call.
C14_OverrunClamp ==
    Len(hist) >= 1 /\ ComputesOverrun(hist[1])
        => /\ hist[1].overrun /\ ~hist[1].underrun
           /\ hist[1].post.m_Tf = TfMax
           /\ hist[1].post.m_pos0 = hist[1].post.m_read - hist[1].post.m_latency
           /\ hist[1].post.m_t0 = hist[1].t
           /\ hist[1].post.m_state = ROLLING

C14_Witness ==
    /\ Len(hist) >= 1 /\ ComputesOverrun(hist[1])
    /\ hist[1].pre.m_queued > 0
    /\ hist[1].post.m_Tf = TfMax
    /\ hist[1].post.m_pos0 < hist[1].post.m_read

\* What C15 says seek(m) at clock reading t makes of the state s.
SeekEffect(s, m, t) ==
    IF s.m_state \in {STOPPED, PAUSED}
    THEN [m_state |-> s.m_state, m_latency |-> s.m_latency,
          m_pos0 |-> m, m_read |-> m, m_last |-> m, m_queued |-> 0,
          m_t0 |-> t, m_Tf |-> TfZero, m_now_last |-> 0]
    ELSE [m_state |-> s.m_state, m_latency |-> s.m_latency,
          m_read |-> m, m_pos0 |-> m - s.m_latency, m_last |-> m - s.m_latency,
          m_queued |-> 0, m_Tf |-> TfUnity, m_t0 |-> t, m_now_last |-> 0]

SeekAfterSeek ==
    /\ Len(hist) >= 2 /\ hist[1].op = "seek" /\ hist[2].op = "seek"
    /\ hist[1].w = hist[2].w + 1
    /\ hist[1].arg = hist[2].arg

\* C16 as stated: the second of two seek(m) in a row leaves the complete state
\* (state, latency, t0, pos0, read, queued, Tf, last, now_last) as the first
\* left it.
C16_SeekIdempotent ==
    SeekAfterSeek => hist[1].post = hist[2].post

\* C16 amended: the second of two seek(m) in a row leaves state, latency, pos0,
\* read, queued, Tf, last and now_last as the first left them, and sets t0 to
\* its own clock reading.
C16_SeekIdempotentButEpochTime ==
    SeekAfterSeek => hist[1].post = [hist[2].post EXCEPT !.m_t0 = hist[1].t]

C16_Witness ==
    /\ SeekAfterSeek
    /\ hist[1].t > hist[2].t
    /\ hist[2].pre.m_state = ROLLING
    /\ hist[1].post.m_t0 = hist[1].t
    /\ hist[1].post.m_pos0 = hist[2].post.m_pos0

\* The value accessor op returns in the state s.
AccessorValue(op, s) ==
    IF op = "read_pointer" THEN read_pointer(s) ELSE usecs_queued(s)

\* A reader is inside get_stream_usecs() with the mutex.
ReaderHolds(r) == rd[r].pc = "unlock"

\* C17 as stated: a reader is never inside the locked part of
\* get_stream_usecs() while the writer is inside post_buffer, and every value
\* read_pointer() or usecs_queued() returned to a reader while the writer was
\* inside post_buffer is the value of the state before the call or of the
\* state after it.
C17_AtomicObservation ==
    /\ \A r \in Readers : ~(ReaderHolds(r) /\ pc \in HoldPoints)
    /\ pc = "idle" /\ wcall.op = "post_buffer"
           => \A o \in obs : o.val \in {AccessorValue(o.op, wcall.pre),
                                        AccessorValue(o.op, wcall.post)}

\* The steps of post_buffer compose to post_buffer().
PostBufferStepsAgree ==
    pc = "idle" /\ wcall.op = "post_buffer"
        => wcall.post = post_buffer(wcall.pre, wcall.arg, wcall.t).obj

\* No thread is at a lock() of the mutex it holds.
NoSelfAcquire ==
    /\ pc \in LockPoints => mutex # "writer"
    /\ \A r \in Readers : rd[r].pc = "lock" => mutex # r

\* The mutex is held by a thread inside a locked region, the handlers
\* err_underrun and err_overrun run with it held, and a thread that is in no
\* call holds nothing.
NoLeakedLock ==
    /\ mutex = "writer" <=> pc \in HoldPoints
    /\ \A r \in Readers : mutex = r <=> ReaderHolds(r)

\* Every call that was made returns.
EveryCallReturns ==
    /\ (pc # "idle") ~> (pc = "idle")
    /\ \A r \in Readers : (rd[r].pc # "idle") ~> (rd[r].pc = "idle")

\* C18: no public operation locks the mutex its thread already holds, the
\* mutex is not held by a thread whose call has returned, and under fair
\* scheduling every call returns.
C18_NoSelfDeadlockNoLeak ==
    /\ [](NoSelfAcquire /\ NoLeakedLock)
    /\ EveryCallReturns

C18_Witness ==
    /\ wcall.op = "reset" /\ pc = "pause_seek_unlock" /\ mutex = "writer"
    /\ \E r \in Readers : rd[r].pc = "lock"

\* C19: set_latency(l) sets latency to l when l > 0 and to 160000 otherwise
\* and changes no other field; latency > 0 in every reachable state.
C19_SetLatency ==
    /\ ti.m_latency > 0
    /\ Len(hist) >= 1 /\ hist[1].op = "set_latency"
           => hist[1].post =
                  [hist[1].pre EXCEPT
                       !.m_latency = IF hist[1].arg > 0 THEN hist[1].arg ELSE 160000]

C19_Witness ==
    /\ Len(hist) >= 2 /\ hist[1].op = "set_latency" /\ hist[2].op = "set_latency"
    /\ hist[2].arg = 20000 /\ hist[2].post.m_latency = 20000
    /\ hist[1].arg = 0 /\ hist[1].post.m_latency = 160000
    /\ hist[1].pre.m_state = ROLLING

\* A feedback step of steady playback, and the number of post_buffer calls
\* made so far.
SteadyCycle ==
    /\ Len(hist) >= 2 /\ IsPost(hist[1]) /\ IsPost(hist[2])
    /\ hist[1].path = "feedback" /\ hist[1].pre.m_state = ROLLING

SteadyTimeConstant == CDiv(ti.m_latency + hist[1].arg - 1, hist[1].arg)

\* The position error has settled: what is left of it corrects pos1 by less
\* than one microsecond per cycle.
SteadyLocked ==
    /\ Abs(FeedbackError(hist[1])) * hist[1].arg < hist[1].pre.m_latency
    /\ hist[1].post.m_state = ROLLING

\* C20 as stated: with post_buffer(f) every f microseconds after a cold start,
\* f below half the latency, no call fires UNDERRUN or OVERRUN, and within a
\* number of cycles proportional to latency/f the position error and Tf - 1
\* have gone to 0.
C20_LatencyLockedSteadyState ==
    SteadyCycle =>
        /\ ~hist[1].overrun /\ ~hist[1].underrun
        /\ calls >= 12 * SteadyTimeConstant => SteadyLocked

\* Steady playback as the code does it: never an UNDERRUN; an OVERRUN in the
\* first feedback step exactly when f + 2 * latency <= 40000, and in no later
\* step; after 12 * ceil(latency/f) calls the error has settled.
SteadyLockIn ==
    SteadyCycle =>
        /\ ~hist[1].underrun
        /\ hist[1].overrun <=>
               calls = 3 /\ hist[1].arg + 2 * hist[1].pre.m_latency <= 40000
        /\ calls >= 12 * SteadyTimeConstant => SteadyLocked

\* C21: in every state with m_state = ROLLING the time factor is within
\* [1/2, 2], whatever public calls came before (seek, pause/resume cycles,
\* rapid posts); Tf = 0 is only seen in a state that is not ROLLING.
C21_TfClampedWhileRolling ==
    /\ ti.m_state = ROLLING => TfInRange(ti.m_Tf)
    /\ ti.m_Tf = TfZero => ti.m_state # ROLLING

\* C22: while the state is STOPPED the clock is frozen: of two get_stream_usecs
\* calls with no mutating call between them, the first made in STOPPED
\* (after construction, seek, stop, reset, an underrun, a stray resume(), or
\* between the two locked regions of a stop() in progress), the second returns
\* the value the first returned, however much later it is made.
C22_StoppedClockFrozen ==
    ReadAfterRead /\ hist[2].pre.m_state = STOPPED
        => hist[1].ret = hist[2].ret

\* The calls that are to leave the write position alone.
KeepsWritePosition(c) ==
    c.op \in {"pause", "stop", "pause_flushing", "resume", "set_latency",
              "get_stream_usecs"}

\* C23: read + queued is the cumulative write position: every post_buffer(f)
\* increases it by exactly f on every path (cold start, aggregation, feedback
\* step, with or without the overrun or underrun handler), and pause(false),
\* stop/pause(true), resume, set_latency and get_stream_usecs (its underrun
\* path included) leave it unchanged.
C23_WritePositionConserved ==
    Len(hist) >= 1 =>
        /\ IsPost(hist[1]) =>
               read_pointer(hist[1].post) = read_pointer(hist[1].pre) + hist[1].arg
        /\ KeepsWritePosition(hist[1]) =>
               read_pointer(hist[1].post) = read_pointer(hist[1].pre)

====
